---- MODULE Spec2Model ----
(***************************************************************************)
(* Model of rouille's request dispatcher (src/src/lib.rs) and of its       *)
(* content-encoding negotiation (src/src/content_encoding.rs).             *)
(*                                                                         *)
(* Three specifications share the module:                                  *)
(*   Spec / FairSpec  the accept loop of start_server, the thread pool,    *)
(*                    the worker closure and Request::data                 *)
(*   SpecApply        content_encoding::apply as a function of a request,  *)
(*                    a response and the compiled-in features              *)
(*   SpecRequest      one Request whose handler shares it among threads    *)
(*                    that call data() and header(), lock by lock          *)
(***************************************************************************)
EXTENDS Integers, Sequences, FiniteSets, TLC

(***************************************************************************)
(* Bounds                                                                  *)
(***************************************************************************)
\* number of requests the clients send
MaxRequests == 3
\* longest request body, in bytes
MaxBody == 2
\* number of Request::data calls one handler invocation makes at most
MaxDataCalls == 2

\* number of entries of the generated Accept-Encoding headers
MaxEntries == 2

\* ThreadPool::new(num_cpus::get()): the size of the pool
NumWorkers == 2

Req == 1..MaxRequests

\* Option<T>
None == <<>>
Some(x) == <<x>>
is_some(o) == o # None
unwrap(o) == o[1]
\* Option::unwrap_or
unwrap_or(o, d) == IF is_some(o) THEN unwrap(o) ELSE d

(***************************************************************************)
(* State                                                                   *)
(***************************************************************************)
VARIABLES
    loop,       \* accept loop: 0 = blocked in server.recv(), r = holds the Request r built, about to pool.execute
    accepted,   \* number of requests server.recv() has returned
    pc,         \* per request: its position in the unit of work
    requests,   \* per request: the Request struct (fields request and data)
    conn,       \* per connection: the tiny_http side (body reader, responses received)
    pool,       \* the ThreadPool: queued jobs, jobs running, live threads
    calls,      \* per request: what the data() calls of the running handler returned so far
    responses,  \* per request: the Response the handler returned
    features,       \* the cargo features content_encoding.rs is compiled with
    arg_request,    \* apply: the request argument
    arg_response,   \* apply: the response argument
    returned,       \* apply: None before the call, Some(outcome) after it
    again,          \* apply: Some(outcome) of apply on the response it returned
    thr,        \* per thread sharing one Request: where it is in data() or header()
    locks       \* the two mutexes of that Request: the thread holding each, 0 when free

dvars == <<loop, accepted, pc, requests, conn, pool, calls, responses>>

avars == <<features, arg_request, arg_response, returned, again>>

svars == <<thr, locks>>

vars == <<loop, accepted, pc, requests, conn, pool, calls, responses,
          features, arg_request, arg_response, returned, again, thr, locks>>

(***************************************************************************)
(* Strings are sequences of one-character strings.                         *)
(***************************************************************************)
S_Content_Encoding == <<"C", "o", "n", "t", "e", "n", "t", "-", "E", "n", "c", "o", "d", "i", "n", "g">>
S_Content_Type == <<"C", "o", "n", "t", "e", "n", "t", "-", "T", "y", "p", "e">>
S_Accept_Encoding == <<"A", "c", "c", "e", "p", "t", "-", "E", "n", "c", "o", "d", "i", "n", "g">>
S_br == <<"b", "r">>
S_gzip == <<"g", "z", "i", "p">>
S_x_gzip == <<"x", "-", "g", "z", "i", "p">>
S_identity == <<"i", "d", "e", "n", "t", "i", "t", "y">>
S_text_slash == <<"t", "e", "x", "t", "/">>
S_javascript == <<"j", "a", "v", "a", "s", "c", "r", "i", "p", "t">>
S_json == <<"j", "s", "o", "n">>
S_xml == <<"x", "m", "l">>
S_font == <<"f", "o", "n", "t">>
S_empty == <<>>

\* u8::to_ascii_lowercase / char::to_lowercase on the ASCII letters
ToLowerChar(c) ==
    CASE c = "A" -> "a"
      [] c = "B" -> "b"
      [] c = "C" -> "c"
      [] c = "D" -> "d"
      [] c = "E" -> "e"
      [] c = "F" -> "f"
      [] c = "G" -> "g"
      [] c = "H" -> "h"
      [] c = "I" -> "i"
      [] c = "J" -> "j"
      [] c = "K" -> "k"
      [] c = "L" -> "l"
      [] c = "M" -> "m"
      [] c = "N" -> "n"
      [] c = "O" -> "o"
      [] c = "P" -> "p"
      [] c = "Q" -> "q"
      [] c = "R" -> "r"
      [] c = "S" -> "s"
      [] c = "T" -> "t"
      [] c = "U" -> "u"
      [] c = "V" -> "v"
      [] c = "W" -> "w"
      [] c = "X" -> "x"
      [] c = "Y" -> "y"
      [] c = "Z" -> "z"
      [] OTHER -> c

\* str::to_lowercase
to_lowercase(s) == [i \in 1..Len(s) |-> ToLowerChar(s[i])]

\* str::eq_ignore_ascii_case
eq_ignore_ascii_case(a, b) ==
    /\ Len(a) = Len(b)
    /\ \A i \in 1..Len(a) : ToLowerChar(a[i]) = ToLowerChar(b[i])

\* str::starts_with
starts_with(s, p) == Len(p) <= Len(s) /\ SubSeq(s, 1, Len(p)) = p

\* str::contains
contains(s, p) == \E i \in 0..(Len(s) - Len(p)) : SubSeq(s, i + 1, i + Len(p)) = p

\* the body the client of a connection sends: n bytes
BodyOf(n) == [i \in 1..n |-> i]

\* what server.recv() can yield: no body or a body of MaxBody bytes, and a
\* reader that reads it all (failAfter = -1) or returns an I/O error once
\* failAfter bytes were read (before the first byte, or after it)
Inbound ==
    { [headers |-> <<[field |-> <<"H", "o", "s", "t">>, value |-> <<"a">>]>>,
       body |-> BodyOf(n), failAfter |-> f] : n \in {0, MaxBody}, f \in {-1, 0, 1} } \
    { [headers |-> <<[field |-> <<"H", "o", "s", "t">>, value |-> <<"a">>]>>,
       body |-> BodyOf(0), failAfter |-> 1] }

\* threads that share one Request
MaxThreads == 2
Threads == 1..MaxThreads

\* a thread that is in neither data() nor header() and has called neither:
\*   pc   where it is in the function it called
\*   fn   the function it called last, key its argument (header only)
\*   n    the number of header() calls it made
\*   buf  the local Vec `read` of data()
\*   ret  Some(what its last call returned)
IdleThread == [pc |-> "idle", fn |-> "", n |-> 0, key |-> <<>>, buf |-> <<>>, ret |-> None]

\* both mutexes free
NoLocks == [data |-> 0, request |-> 0]

\* a connection nothing was received on:
\*   headers    the header list of the tiny_http::Request
\*   body, failAfter, pos, reads   the body reader (reads counts read_to_end calls)
\*   taken      how often the tiny_http::Request was taken out of its slot
\*   delivered  the responses the client received
NoConn ==
    [headers |-> <<>>, body |-> <<>>, failAfter |-> -1, pos |-> 0, reads |-> 0,
     taken |-> 0, delivered |-> <<>>]

\* connection c once its tiny_http::Request is consumed or dropped: the
\* headers and the body reader are gone, what the client received stays
Closed(c) == [NoConn EXCEPT !.delivered = c.delivered, !.taken = c.taken]

\* a Request that does not exist (not yet built, or dropped)
NoRequest == [request |-> None, data |-> None]

\* Read::read_to_end on the body reader of connection c: the bytes appended
\* to the buffer, whether it returned Err, and the reader afterwards
read_to_end(c) ==
    LET lim == IF c.failAfter >= c.pos THEN c.failAfter ELSE Len(c.body)
    IN  [ bytes |-> SubSeq(c.body, c.pos + 1, lim),
          err   |-> c.failAfter >= c.pos,
          conn  |-> [c EXCEPT !.pos = lim, !.reads = @ + 1] ]

\* Request::data with the cache never filled
data_nocache(self, c) ==
    IF is_some(self.data)
    THEN [kind |-> "Vec", ret |-> unwrap(self.data), err |-> FALSE, self |-> self, conn |-> c]
    ELSE LET rd == read_to_end(c)
         IN  [kind |-> "Vec", ret |-> rd.bytes, err |-> rd.err, self |-> self, conn |-> rd.conn]

\* Request::data: the cached bytes, or else whatever read_to_end appended to
\* the buffer, which is cached.  The Result of read_to_end is discarded
\* (let _ = ...) and the function returns a Vec<u8> on every path:
\*   kind  what the caller receives, always a byte vector
\*   ret   the bytes
\*   err   whether the discarded Result of this call was an Err
\*   self, conn  the Request and the connection afterwards
data(self, c) ==
    IF is_some(self.data)
    THEN [kind |-> "Vec", ret |-> unwrap(self.data), err |-> FALSE, self |-> self, conn |-> c]
    ELSE LET rd == read_to_end(c)
         IN  [kind |-> "Vec", ret |-> rd.bytes, err |-> rd.err,
              self |-> [self EXCEPT !.data = Some(rd.bytes)], conn |-> rd.conn]

\* the Response the user handler computes for request r
handler(r) == [origin |-> r]

(***************************************************************************)
(* input::priority_header_preferred, the header preference parser.  Its    *)
(* source is not part of the files at hand; it is modelled from the        *)
(* description of the parser: split on commas, trim, split on ';', q=      *)
(* parameter with default 1.0, entries of quality 0 discarded, tokens      *)
(* compared ignoring case, '*' standing for every supported token that no  *)
(* entry names, highest quality wins, ties go to the earlier supported     *)
(* token.  Qualities are in thousandths; indexes count from 1.             *)
(***************************************************************************)
\* the first position of character ch in s, 0 when there is none
RECURSIVE find_char(_, _, _)
find_char(s, ch, from) ==
    IF from > Len(s) THEN 0
    ELSE IF s[from] = ch THEN from
    ELSE find_char(s, ch, from + 1)

\* str::split(ch), collected
RECURSIVE split(_, _)
split(s, ch) ==
    LET k == find_char(s, ch, 1)
    IN  IF k = 0 THEN <<s>>
        ELSE <<SubSeq(s, 1, k - 1)>> \o split(SubSeq(s, k + 1, Len(s)), ch)

\* str::trim, for spaces
RECURSIVE trim(_)
trim(s) ==
    IF s = <<>> THEN s
    ELSE IF Head(s) = " " THEN trim(Tail(s))
    ELSE IF s[Len(s)] = " " THEN trim(SubSeq(s, 1, Len(s) - 1))
    ELSE s

DigitChars == <<"0", "1", "2", "3", "4", "5", "6", "7", "8", "9">>
is_digit(c) == \E d \in 1..10 : DigitChars[d] = c
digit_value(c) == (CHOOSE d \in 1..10 : DigitChars[d] = c) - 1

RECURSIVE digits_value(_)
digits_value(s) ==
    IF s = <<>> THEN 0 ELSE 10 * digits_value(SubSeq(s, 1, Len(s) - 1)) + digit_value(s[Len(s)])

\* the quality written in s, in thousandths: "1", "0.5", "0.25";
\* None when s is not a decimal number with at most three decimals
parse_quality(s) ==
    LET parts == split(s, ".")
        all_digits(t) == t # <<>> /\ \A i \in 1..Len(t) : is_digit(t[i])
    IN  IF Len(parts) = 1 /\ all_digits(parts[1])
        THEN Some(1000 * digits_value(parts[1]))
        ELSE IF Len(parts) = 2 /\ all_digits(parts[1]) /\ all_digits(parts[2]) /\ Len(parts[2]) <= 3
        THEN Some(1000 * digits_value(parts[1])
                  + digits_value(parts[2]) * (IF Len(parts[2]) = 1 THEN 100
                                              ELSE IF Len(parts[2]) = 2 THEN 10 ELSE 1))
        ELSE None

\* one comma-separated segment: its token and its quality (1.0 when no q=
\* parameter is given or when its value is malformed)
parse_entry(segment) ==
    LET params == split(segment, ";")
        qs == {i \in 2..Len(params) : starts_with(trim(params[i]), <<"q", "=">>)}
        quality ==
            IF qs = {} THEN 1000
            ELSE LET p == trim(params[CHOOSE i \in qs : \A j \in qs : i <= j])
                 IN  unwrap_or(parse_quality(SubSeq(p, 3, Len(p))), 1000)
    IN  [token |-> trim(params[1]), quality |-> quality]

\* the entries of the header in header order, those of quality 0 discarded
parse_priority_header(input) ==
    LET segments == split(input, ",")
        all == [i \in 1..Len(segments) |-> parse_entry(segments[i])]
    IN  SelectSeq(all, LAMBDA e : e.quality # 0)

\* the quality the entries give to a supported token: the best of the
\* entries naming it, else the best of the '*' entries, else 0 (no match)
quality_of(entries, element) ==
    LET named == {i \in DOMAIN entries : eq_ignore_ascii_case(entries[i].token, element)}
        stars == {i \in DOMAIN entries : entries[i].token = <<"*">>}
        best(idx) == CHOOSE q \in {entries[i].quality : i \in idx} :
                        \A i \in idx : entries[i].quality <= q
    IN  IF named # {} THEN best(named)
        ELSE IF stars # {} THEN best(stars)
        ELSE 0

\* scan of the supported tokens from index from on; result is the best
\* <<index, quality>> so far, replaced only by a strictly higher quality
RECURSIVE preferred_scan(_, _, _, _)
preferred_scan(entries, elements, from, result) ==
    IF from > Len(elements) THEN result
    ELSE LET q == quality_of(entries, elements[from])
         IN  preferred_scan(entries, elements, from + 1,
                            IF q > result[2] THEN <<Some(from), q>> ELSE result)

\* input::priority_header_preferred(input, elements): the index of the best
\* mutually acceptable element, None when nothing matches
priority_header_preferred(input, elements) ==
    preferred_scan(parse_priority_header(input), elements, 1, <<None, 0>>)[1]

(***************************************************************************)
(* content_encoding.rs                                                     *)
(*                                                                         *)
(* A Response is [headers, data]: headers a sequence of <<key, value>>,    *)
(* data the body [layers, bytes, fails]: the bytes of the original body,   *)
(* the encoders they went or go through, and whether reading the body      *)
(* reader returns an I/O error.                                            *)
(* The request of apply is [headers]: the headers tiny_http parsed, a      *)
(* sequence of [field, value].                                             *)
(***************************************************************************)

\* Request::header: the value of the first header whose field == key
header(self, key) ==
    LET idx == {i \in DOMAIN self.headers : self.headers[i].field = key}
    IN  IF idx = {} THEN None
        ELSE Some(self.headers[CHOOSE i \in idx : \A j \in idx : i <= j].value)

\* ResponseBody::empty()
ResponseBody_empty == [layers |-> <<>>, bytes |-> <<>>, fails |-> FALSE]

\* response_is_text accepting every response that has a Content-Type
response_is_text_any(response) ==
    \E i \in DOMAIN response.headers :
        eq_ignore_ascii_case(response.headers[i][1], S_Content_Type)

\* response_is_text
response_is_text(response) ==
    \E i \in DOMAIN response.headers :
        LET key == response.headers[i][1]
            value == response.headers[i][2]
        IN  IF ~eq_ignore_ascii_case(key, S_Content_Type) THEN FALSE
            ELSE LET content_type == to_lowercase(value)
                 IN  \/ starts_with(content_type, S_text_slash)
                     \/ contains(content_type, S_javascript)
                     \/ contains(content_type, S_json)
                     \/ contains(content_type, S_xml)
                     \/ contains(content_type, S_font)

\* the Content-Encoding test left out
has_content_encoding_never(response) == FALSE

\* the Content-Encoding test comparing the key exactly
has_content_encoding_exact(response) ==
    \E i \in DOMAIN response.headers : response.headers[i][1] = S_Content_Encoding

\* apply: response.headers.iter().any(|..| key.eq_ignore_ascii_case("Content-Encoding"))
has_content_encoding(response) ==
    \E i \in DOMAIN response.headers :
        eq_ignore_ascii_case(response.headers[i][1], S_Content_Encoding)

\* gzip that pushes the header and leaves the body as it was
gzip_body_kept(response) ==
    IF "gzip" \notin features THEN [panic |-> FALSE, response |-> response]
    ELSE [panic |-> FALSE,
          response |-> [response EXCEPT !.headers = Append(@, <<S_Content_Encoding, S_gzip>>)]]

\* gzip, feature "gzip": the header is pushed and the body taken out first;
\* io::copy(..).expect(..) panics when reading the body fails; otherwise the
\* body becomes the gzip of the bytes read.  Without the feature: nothing.
gzip(response) ==
    IF "gzip" \notin features THEN [panic |-> FALSE, response |-> response]
    ELSE LET pushed == Append(response.headers, <<S_Content_Encoding, S_gzip>>)
             previous_body == response.data
         IN  IF previous_body.fails
             THEN [panic |-> TRUE,
                   response |-> [headers |-> pushed, data |-> ResponseBody_empty]]
             ELSE [panic |-> FALSE,
                   response |-> [headers |-> pushed,
                                 data |-> [layers |-> Append(previous_body.layers, "gzip"),
                                           bytes |-> previous_body.bytes,
                                           fails |-> FALSE]]]

\* brotli, feature "brotli": the header is pushed and the body wrapped in a
\* BrotliEncoder that reads the previous body when the response is sent.
\* Without the feature: nothing.
brotli(response) ==
    IF "brotli" \notin features THEN [panic |-> FALSE, response |-> response]
    ELSE LET previous_body == response.data
         IN  [panic |-> FALSE,
              response |-> [headers |-> Append(response.headers, <<S_Content_Encoding, S_br>>),
                            data |-> [previous_body EXCEPT !.layers = Append(@, "brotli")]]]

\* a preference list with gzip ahead of br
encoding_preference_gzip_first == <<S_gzip, S_br, S_x_gzip, S_identity>>

\* apply: let encoding_preference = ["br", "gzip", "x-gzip", "identity"]
encoding_preference == <<S_br, S_gzip, S_x_gzip, S_identity>>

\* the header value defaulting to "gzip"
accept_encoding_header_gzip(request) == unwrap_or(header(request, S_Accept_Encoding), S_gzip)

\* apply: request.header("Accept-Encoding").unwrap_or("")
accept_encoding_header(request) == unwrap_or(header(request, S_Accept_Encoding), S_empty)

\* the match that gzips when nothing was preferred
encode_always(preferred_index, response) ==
    IF ~is_some(preferred_index) THEN gzip(response)
    ELSE LET e == encoding_preference[unwrap(preferred_index)]
         IN  IF e = S_br THEN brotli(response)
             ELSE IF e = S_gzip \/ e = S_x_gzip THEN gzip(response)
             ELSE [panic |-> FALSE, response |-> response]

\* apply: if let Some(preferred_index) = .. { match encoding_preference[preferred_index] { .. } }
encode(preferred_index, response) ==
    IF ~is_some(preferred_index) THEN [panic |-> FALSE, response |-> response]
    ELSE LET e == encoding_preference[unwrap(preferred_index)]
         IN  IF e = S_br THEN brotli(response)
             ELSE IF e = S_gzip \/ e = S_x_gzip THEN gzip(response)
             ELSE [panic |-> FALSE, response |-> response]

\* content_encoding::apply.  panic: the call unwound instead of returning;
\* response: the Response returned (on a panic, the one being built);
\* preferred_index: what priority_header_preferred answered, None when the
\* gates returned before it was asked.
apply(request, response) ==
    IF ~response_is_text(response)
    THEN [panic |-> FALSE, response |-> response, preferred_index |-> None]
    ELSE IF has_content_encoding(response)
    THEN [panic |-> FALSE, response |-> response, preferred_index |-> None]
    ELSE LET preferred_index ==
                 priority_header_preferred(accept_encoding_header(request), encoding_preference)
             e == encode(preferred_index, response)
         IN  [panic |-> e.panic, response |-> e.response, preferred_index |-> preferred_index]

(***************************************************************************)
(* Arguments of apply                                                      *)
(***************************************************************************)
S_deflate == <<"d", "e", "f", "l", "a", "t", "e">>
S_star == <<"*">>
S_accept_encoding_lc == <<"a", "c", "c", "e", "p", "t", "-", "e", "n", "c", "o", "d", "i", "n", "g">>
S_Host == <<"H", "o", "s", "t">>
S_localhost == <<"l", "o", "c", "a", "l", "h", "o", "s", "t">>
S_content_type_lc == <<"c", "o", "n", "t", "e", "n", "t", "-", "t", "y", "p", "e">>
S_content_encoding_lc == <<"c", "o", "n", "t", "e", "n", "t", "-", "e", "n", "c", "o", "d", "i", "n", "g">>
S_CONTENT_ENCODING_uc == <<"C", "O", "N", "T", "E", "N", "T", "-", "E", "N", "C", "O", "D", "I", "N", "G">>

\* Accept-Encoding entries: a token, alone or with a quality
Tokens == {S_br, S_gzip, S_x_gzip, S_identity, S_deflate, S_star}
QualitySuffixes == {<<>>, <<";", "q", "=", "0">>, <<";", "q", "=", "0", ".", "5">>}
EntryStrings == {t \o q : t \in Tokens, q \in QualitySuffixes}

\* header values of exactly n entries
RECURSIVE HeaderValues(_)
HeaderValues(n) ==
    IF n = 1 THEN EntryStrings
    ELSE {h \o <<",", " ">> \o e : h \in HeaderValues(n - 1), e \in EntryStrings}

Example_weighted == <<"g", "z", "i", "p", ";", "q", "=", "0", ".", "5", ",", " ", "b", "r", ";", "q", "=", "0", ".", "8", ",", " ", "i", "d", "e", "n", "t", "i", "t", "y", ";", "q", "=", "0", ".", "1">>
Example_tie == <<"b", "r", ",", " ", "g", "z", "i", "p">>
Example_mixed_case == <<"G", "Z", "I", "P", ";", "q", "=", "0", ".", "5", ",", "d", "e", "f", "l", "a", "t", "e", " ", ";", " ", "q", "=", "0", ".", "8">>

AcceptValues ==
    {S_empty, Example_weighted, Example_tie, Example_mixed_case}
        \cup UNION {HeaderValues(n) : n \in 1..MaxEntries}

AcceptHeader(name, v) == [field |-> name, value |-> v]

\* requests carrying every generated header value
AllRequests == {[headers |-> <<AcceptHeader(S_Accept_Encoding, v)>>] : v \in AcceptValues}

\* a few requests: no header, other headers, the header under another case
FewRequests ==
    {[headers |-> <<>>], [headers |-> <<AcceptHeader(S_Host, S_localhost)>>]}
    \cup {[headers |-> <<AcceptHeader(S_Accept_Encoding, v)>>] :
            v \in {S_empty, S_gzip, S_br, S_identity, S_star, S_deflate, S_gzip \o <<";", "q", "=", "0">>}}
    \cup {[headers |-> <<AcceptHeader(S_Host, S_localhost), AcceptHeader(S_Accept_Encoding, Example_tie)>>],
          [headers |-> <<AcceptHeader(S_accept_encoding_lc, S_gzip)>>]}

ContentTypes ==
    {<<"t", "e", "x", "t", "/", "h", "t", "m", "l">>,
     <<"T", "E", "X", "T", "/", "P", "l", "a", "i", "n">>,
     <<"i", "m", "a", "g", "e", "/", "p", "n", "g">>,
     <<"a", "p", "p", "l", "i", "c", "a", "t", "i", "o", "n", "/", "j", "s", "o", "n">>,
     <<"i", "m", "a", "g", "e", "/", "s", "v", "g", "+", "x", "m", "l">>,
     <<"a", "p", "p", "l", "i", "c", "a", "t", "i", "o", "n", "/", "x", "-", "f", "o", "n", "t", "-", "w", "o", "f", "f">>,
     <<"a", "p", "p", "l", "i", "c", "a", "t", "i", "o", "n", "/", "j", "a", "v", "a", "s", "c", "r", "i", "p", "t">>,
     <<"a", "p", "p", "l", "i", "c", "a", "t", "i", "o", "n", "/", "o", "c", "t", "e", "t", "-", "s", "t", "r", "e", "a", "m">>,
     <<"m", "y", "t", "e", "x", "t", "/", "x">>}

ContentTypeHeaders ==
    {<<>>} \cup {<< <<n, v>> >> : n \in {S_Content_Type, S_content_type_lc}, v \in ContentTypes}

ContentEncodingHeaders ==
    {<<>>, << <<S_Content_Encoding, S_gzip>> >>, << <<S_content_encoding_lc, S_br>> >>,
     << <<S_CONTENT_ENCODING_uc, S_identity>> >>}

ResponseHeaders ==
    {a \o b : a \in ContentTypeHeaders, b \in ContentEncodingHeaders}
        \cup {b \o a : a \in ContentTypeHeaders, b \in ContentEncodingHeaders}

\* bodies: some bytes or none, read without error or failing
Bodies ==
    {[layers |-> <<>>, bytes |-> b, fails |-> f] : b \in {<<>>, <<1, 2>>}, f \in BOOLEAN}

AllResponses == {[headers |-> h, data |-> d] : h \in ResponseHeaders, d \in Bodies}

\* a response apply is meant to encode
TextResponse ==
    [headers |-> << <<S_Content_Type, <<"t", "e", "x", "t", "/", "h", "t", "m", "l">>>> >>,
     data |-> [layers |-> <<>>, bytes |-> <<1, 2>>, fails |-> FALSE]]

Features == SUBSET {"gzip", "brotli"}

\* the names a handler asks header() for
HeaderKeys == {S_Host, S_Accept_Encoding}

\* the dispatcher before the first request
DInit ==
    /\ loop = 0
    /\ accepted = 0
    /\ pc = [r \in Req |-> "NotAccepted"]
    /\ requests = [r \in Req |-> NoRequest]
    /\ conn = [r \in Req |-> NoConn]
    /\ pool = [jobs |-> <<>>, active |-> {}, threads |-> NumWorkers]
    /\ calls = [r \in Req |-> <<>>]
    /\ responses = [r \in Req |-> None]
    /\ thr = [t \in Threads |-> IdleThread]
    /\ locks = NoLocks

AInit ==
    /\ DInit
    /\ features \in Features
    /\ \/ arg_request \in FewRequests /\ arg_response \in AllResponses
       \/ arg_request \in AllRequests /\ arg_response = TextResponse
    /\ returned = None
    /\ again = None

\* the handler calls content_encoding::apply(request, response)
Apply ==
    /\ returned = None
    /\ returned' = Some(apply(arg_request, arg_response))
    /\ UNCHANGED <<features, arg_request, arg_response, again>>
    /\ UNCHANGED <<dvars, svars>>

\* the response apply returned is handed to apply once more, with the same request
ApplyAgain ==
    /\ is_some(returned)
    /\ ~unwrap(returned).panic
    /\ again = None
    /\ again' = Some(apply(arg_request, unwrap(returned).response))
    /\ UNCHANGED <<features, arg_request, arg_response, returned>>
    /\ UNCHANGED <<dvars, svars>>

ApplyNext == Apply \/ ApplyAgain

Init ==
    /\ DInit
    /\ features = {}
    /\ arg_request = [headers |-> <<>>]
    /\ arg_response = TextResponse
    /\ returned = None
    /\ again = None

\* a Request construction that reads the body at once and throws it away
Recv_eager(inb) ==
    /\ loop = 0
    /\ accepted < MaxRequests
    /\ LET r == accepted + 1
           c == [NoConn EXCEPT !.headers = inb.headers,
                               !.body = inb.body,
                               !.failAfter = inb.failAfter]
       IN  /\ accepted' = r
           /\ loop' = r
           /\ pc' = [pc EXCEPT ![r] = "Accepted"]
           /\ conn' = [conn EXCEPT ![r] = read_to_end(c).conn]
           /\ requests' = [requests EXCEPT ![r] = [request |-> Some(r), data |-> None]]
    /\ UNCHANGED <<pool, calls, responses, avars, svars>>

\* server.recv() returns the next request; the loop wraps it in a Request
Recv(inb) ==
    /\ loop = 0
    /\ accepted < MaxRequests
    /\ LET r == accepted + 1
       IN  /\ accepted' = r
           /\ loop' = r
           /\ pc' = [pc EXCEPT ![r] = "Accepted"]
           /\ conn' = [conn EXCEPT ![r] = [NoConn EXCEPT !.headers = inb.headers,
                                                         !.body = inb.body,
                                                         !.failAfter = inb.failAfter]]
           /\ requests' = [requests EXCEPT ![r] = [request |-> Some(r), data |-> None]]
    /\ UNCHANGED <<pool, calls, responses, avars, svars>>

\* a pool.execute that waits for a free thread before it returns
Execute_blocking ==
    /\ loop # 0
    /\ Cardinality(pool.active) < pool.threads
    /\ pool' = [pool EXCEPT !.jobs = Append(@, loop)]
    /\ pc' = [pc EXCEPT ![loop] = "Dispatched"]
    /\ loop' = 0
    /\ UNCHANGED <<accepted, requests, conn, calls, responses, avars, svars>>

\* pool.execute(closure): the job is queued, the loop goes back to recv
Execute ==
    /\ loop # 0
    /\ pool' = [pool EXCEPT !.jobs = Append(@, loop)]
    /\ pc' = [pc EXCEPT ![loop] = "Dispatched"]
    /\ loop' = 0
    /\ UNCHANGED <<accepted, requests, conn, calls, responses, avars, svars>>

\* a pool thread that takes the newest job
WorkerStart_lifo ==
    /\ pool.jobs # <<>>
    /\ Cardinality(pool.active) < pool.threads
    /\ LET r == pool.jobs[Len(pool.jobs)]
       IN  /\ pool' = [pool EXCEPT !.jobs = SubSeq(@, 1, Len(@) - 1), !.active = @ \cup {r}]
           /\ pc' = [pc EXCEPT ![r] = "HandlerRunning"]
    /\ UNCHANGED <<loop, accepted, requests, conn, calls, responses, avars, svars>>

\* a closure that takes the handle out of the slot before it calls the handler
WorkerStart_takes_early ==
    /\ pool.jobs # <<>>
    /\ Cardinality(pool.active) < pool.threads
    /\ LET r == Head(pool.jobs)
       IN  /\ pool' = [pool EXCEPT !.jobs = Tail(@), !.active = @ \cup {r}]
           /\ pc' = [pc EXCEPT ![r] = "HandlerRunning"]
           /\ requests' = [requests EXCEPT ![r].request = None]
    /\ UNCHANGED <<loop, accepted, conn, calls, responses, avars, svars>>

\* a free pool thread takes the oldest job and calls the handler
WorkerStart ==
    /\ pool.jobs # <<>>
    /\ Cardinality(pool.active) < pool.threads
    /\ LET r == Head(pool.jobs)
       IN  /\ pool' = [pool EXCEPT !.jobs = Tail(@), !.active = @ \cup {r}]
           /\ pc' = [pc EXCEPT ![r] = "HandlerRunning"]
    /\ UNCHANGED <<loop, accepted, requests, conn, calls, responses, avars, svars>>

\* a panicking job whose thread is not replaced
PoolAfterPanicLost(p, r) == [p EXCEPT !.active = @ \ {r}, !.threads = @ - 1]

\* the pool after the job of r panicked: the thread unwinds and the pool
\* starts another one in its place
PoolAfterPanic(p, r) == [p EXCEPT !.active = @ \ {r}]

\* a panic in the closure of r: the pool thread unwinds, the closure's
\* Request is dropped and with it the connection, unanswered
Unwind(r) ==
    /\ pc' = [pc EXCEPT ![r] = "Panicked"]
    /\ pool' = PoolAfterPanic(pool, r)
    /\ requests' = [requests EXCEPT ![r] = NoRequest]
    /\ calls' = [calls EXCEPT ![r] = <<>>]
    /\ conn' = [conn EXCEPT ![r] = Closed(@)]

\* the handler calls request.header(key): the slot is locked, unwrapped
\* (a panic when it is empty) and searched; the Request is left as it was
HandlerHeader(r, key) ==
    /\ pc[r] = "HandlerRunning"
    /\ IF is_some(requests[r].request)
       THEN /\ header(conn[unwrap(requests[r].request)], key) \in {None, Some(<<"a">>)}
            /\ UNCHANGED <<pc, pool, requests, calls, conn>>
       ELSE Unwind(r)
    /\ UNCHANGED <<loop, accepted, responses, avars, svars>>

\* the handler calls request.data(): a data() that has to read unwraps the
\* slot (a panic when it is empty)
HandlerData(r) ==
    /\ pc[r] = "HandlerRunning"
    /\ Len(calls[r]) < MaxDataCalls
    /\ IF is_some(requests[r].data) \/ is_some(requests[r].request)
       THEN LET c == unwrap_or(requests[r].request, r)
                d == data(requests[r], conn[c])
            IN  /\ requests' = [requests EXCEPT ![r] = d.self]
                /\ conn' = [conn EXCEPT ![c] = d.conn]
                /\ calls' = [calls EXCEPT ![r] = Append(@, [kind |-> d.kind, ret |-> d.ret, err |-> d.err])]
                /\ UNCHANGED <<pc, pool>>
       ELSE Unwind(r)
    /\ UNCHANGED <<loop, accepted, responses, avars, svars>>

\* a closure that ends when the handler returns, without responding
HandlerReturn_done(r) ==
    /\ pc[r] = "HandlerRunning"
    /\ pc' = [pc EXCEPT ![r] = "Done"]
    /\ pool' = [pool EXCEPT !.active = @ \ {r}]
    /\ responses' = [responses EXCEPT ![r] = Some(handler(r))]
    /\ calls' = [calls EXCEPT ![r] = <<>>]
    /\ UNCHANGED <<loop, accepted, requests, conn, avars, svars>>

\* the handler returns its Response
HandlerReturn(r) ==
    /\ pc[r] = "HandlerRunning"
    /\ pc' = [pc EXCEPT ![r] = "Responding"]
    /\ responses' = [responses EXCEPT ![r] = Some(handler(r))]
    /\ calls' = [calls EXCEPT ![r] = <<>>]
    /\ UNCHANGED <<loop, accepted, requests, conn, pool, avars, svars>>

\* the handler panics: the closure unwinds, dropping the Request
HandlerPanic(r) ==
    /\ pc[r] = "HandlerRunning"
    /\ Unwind(r)
    /\ UNCHANGED <<loop, accepted, responses, avars, svars>>

\* a worker closure that forgets to respond
RespondTo_lost(cs, c, resp) == [cs EXCEPT ![c] = Closed(@)]

\* a respond that writes the response twice
RespondTo_twice(cs, c, resp) ==
    [cs EXCEPT ![c] = Closed([@ EXCEPT !.delivered = Append(Append(@, resp), resp)])]

\* tiny_http::Request::respond on connection c
RespondTo(cs, c, resp) == [cs EXCEPT ![c] = Closed([@ EXCEPT !.delivered = Append(@, resp)])]

\* request.request.lock().unwrap().take().unwrap().respond(response.response):
\* the handle is taken out of the slot; unwrap panics when the slot was
\* empty, else the response goes out on the handle; the closure ends and
\* drops the Request
Respond(r) ==
    /\ pc[r] = "Responding"
    /\ IF is_some(requests[r].request)
       THEN LET c == unwrap(requests[r].request)
            IN  /\ conn' = RespondTo([conn EXCEPT ![c].taken = @ + 1], c, unwrap(responses[r]))
                /\ pc' = [pc EXCEPT ![r] = "Done"]
                /\ pool' = [pool EXCEPT !.active = @ \ {r}]
                /\ requests' = [requests EXCEPT ![r] = NoRequest]
                /\ calls' = [calls EXCEPT ![r] = <<>>]
       ELSE Unwind(r)
    /\ responses' = [responses EXCEPT ![r] = None]
    /\ UNCHANGED <<loop, accepted, avars, svars>>

(***************************************************************************)
(* One Request shared by the threads of its handler.  Request is Sync: the *)
(* handler gets &Request and may call data() and header() from several     *)
(* threads.  Request 1 is in HandlerRunning; each step below is one lock   *)
(* acquisition or the code between two of them.                            *)
(***************************************************************************)
\* the header lists of the shared Request
SharedHeaders ==
    { <<[field |-> S_Accept_Encoding, value |-> S_gzip]>>,
      <<[field |-> S_Host, value |-> S_localhost],
        [field |-> S_accept_encoding_lc, value |-> S_br]>>,
      <<[field |-> S_Host, value |-> S_localhost]>> }

\* the shared Request as server.recv() delivered it: a body the reader
\* reads completely, or fails on after the first byte
SharedInbound ==
    { [headers |-> h, body |-> BodyOf(MaxBody), failAfter |-> f] :
        h \in SharedHeaders, f \in {-1, 1} }

SInit ==
    /\ loop = 0
    /\ accepted = 1
    /\ pc = [r \in Req |-> IF r = 1 THEN "HandlerRunning" ELSE "NotAccepted"]
    /\ requests = [r \in Req |-> IF r = 1 THEN [request |-> Some(1), data |-> None] ELSE NoRequest]
    /\ \E inb \in SharedInbound :
         conn = [r \in Req |-> IF r = 1
                                THEN [NoConn EXCEPT !.headers = inb.headers,
                                                    !.body = inb.body,
                                                    !.failAfter = inb.failAfter]
                                ELSE NoConn]
    /\ pool = [jobs |-> <<>>, active |-> {1}, threads |-> NumWorkers]
    /\ calls = [r \in Req |-> <<>>]
    /\ responses = [r \in Req |-> None]
    /\ thr = [t \in Threads |-> IdleThread]
    /\ locks = NoLocks
    /\ features = {}
    /\ arg_request = [headers |-> <<>>]
    /\ arg_response = TextResponse
    /\ returned = None
    /\ again = None

\* the data() calls that were started
DataCallsStarted ==
    Len(calls[1]) + Cardinality({u \in Threads : thr[u].fn = "data" /\ thr[u].pc # "idle"})

\* thread t calls request.data()
CallData(t) ==
    /\ thr[t].pc = "idle"
    /\ DataCallsStarted < MaxDataCalls
    /\ thr' = [thr EXCEPT ![t] = [@ EXCEPT !.pc = "data_lock_data", !.fn = "data",
                                            !.key = <<>>, !.buf = <<>>, !.ret = None]]
    /\ UNCHANGED <<locks, dvars, avars>>

\* let mut data = self.data.lock().unwrap(): t waits until the mutex is free
DataLockData(t) ==
    /\ thr[t].pc = "data_lock_data"
    /\ locks.data = 0
    /\ locks' = [locks EXCEPT !.data = t]
    /\ thr' = [thr EXCEPT ![t].pc = "data_check"]
    /\ UNCHANGED <<dvars, avars>>

\* a data() that gives the cache mutex back before it reads
DataCheck_unlock(t) ==
    /\ thr[t].pc = "data_check"
    /\ IF is_some(requests[1].data)
       THEN /\ thr' = [thr EXCEPT ![t] = [@ EXCEPT !.pc = "idle", !.ret = Some(unwrap(requests[1].data))]]
            /\ calls' = [calls EXCEPT ![1] = Append(@, [kind |-> "Vec", ret |-> unwrap(requests[1].data), err |-> FALSE])]
       ELSE /\ thr' = [thr EXCEPT ![t].pc = "data_lock_request"]
            /\ calls' = calls
    /\ locks' = [locks EXCEPT !.data = 0]
    /\ UNCHANGED <<loop, accepted, pc, requests, conn, pool, responses, avars>>

\* if let Some(ref mut data) = *data { return data.clone(); }: a cached body
\* is returned and the guard dropped; else t goes on, holding the guard
DataCheck(t) ==
    /\ thr[t].pc = "data_check"
    /\ IF is_some(requests[1].data)
       THEN /\ thr' = [thr EXCEPT ![t] = [@ EXCEPT !.pc = "idle", !.ret = Some(unwrap(requests[1].data))]]
            /\ calls' = [calls EXCEPT ![1] = Append(@, [kind |-> "Vec", ret |-> unwrap(requests[1].data), err |-> FALSE])]
            /\ locks' = [locks EXCEPT !.data = 0]
       ELSE /\ thr' = [thr EXCEPT ![t].pc = "data_lock_request"]
            /\ UNCHANGED <<calls, locks>>
    /\ UNCHANGED <<loop, accepted, pc, requests, conn, pool, responses, avars>>

\* self.request.lock().unwrap() in data(): t waits until the mutex is free
DataLockRequest(t) ==
    /\ thr[t].pc = "data_lock_request"
    /\ locks.request = 0
    /\ locks' = [locks EXCEPT !.request = t]
    /\ thr' = [thr EXCEPT ![t].pc = "data_read"]
    /\ UNCHANGED <<dvars, avars>>

\* .as_mut().unwrap().as_reader().read_to_end(&mut read): the body is read
\* into the local buffer, the Result dropped, and the temporary guard of
\* the request mutex dropped at the end of the statement
DataRead(t) ==
    /\ thr[t].pc = "data_read"
    /\ is_some(requests[1].request)
    /\ LET c == unwrap(requests[1].request)
           rd == read_to_end(conn[c])
       IN  /\ conn' = [conn EXCEPT ![c] = rd.conn]
           /\ thr' = [thr EXCEPT ![t] = [@ EXCEPT !.pc = "data_store", !.buf = rd.bytes,
                                                   !.ret = Some(rd.err)]]
    /\ locks' = [locks EXCEPT !.request = 0]
    /\ UNCHANGED <<loop, accepted, pc, requests, pool, calls, responses, avars>>

\* *data = Some(read); read_clone: the cache is filled, the bytes returned
\* and the guard of the cache mutex dropped
DataStore(t) ==
    /\ thr[t].pc = "data_store"
    /\ requests' = [requests EXCEPT ![1].data = Some(thr[t].buf)]
    /\ calls' = [calls EXCEPT ![1] = Append(@, [kind |-> "Vec", ret |-> thr[t].buf, err |-> unwrap(thr[t].ret)])]
    /\ thr' = [thr EXCEPT ![t] = [@ EXCEPT !.pc = "idle", !.buf = <<>>, !.ret = Some(thr[t].buf)]]
    /\ locks' = [locks EXCEPT !.data = 0]
    /\ UNCHANGED <<loop, accepted, pc, conn, pool, responses, avars>>

\* thread t calls request.header(key)
CallHeader(t, key) ==
    /\ thr[t].pc = "idle"
    /\ thr[t].n < MaxDataCalls
    /\ thr' = [thr EXCEPT ![t] = [@ EXCEPT !.pc = "header_lock", !.fn = "header", !.n = @ + 1,
                                            !.key = key, !.buf = <<>>, !.ret = None]]
    /\ UNCHANGED <<locks, dvars, avars>>

\* self.request.lock().unwrap() in header(): t waits until the mutex is free
HeaderLock(t) ==
    /\ thr[t].pc = "header_lock"
    /\ locks.request = 0
    /\ locks' = [locks EXCEPT !.request = t]
    /\ thr' = [thr EXCEPT ![t].pc = "header_find"]
    /\ UNCHANGED <<dvars, avars>>

\* .as_ref().unwrap().headers().iter().find(..).map(..): the lookup; the
\* guard is dropped when header() returns
HeaderFind(t) ==
    /\ thr[t].pc = "header_find"
    /\ is_some(requests[1].request)
    /\ thr' = [thr EXCEPT ![t] = [@ EXCEPT !.pc = "idle",
                                            !.ret = Some(header(conn[unwrap(requests[1].request)], thr[t].key))]]
    /\ locks' = [locks EXCEPT !.request = 0]
    /\ UNCHANGED <<dvars, avars>>

\* a step inside a call of thread t
ThreadStep(t) ==
    \/ DataLockData(t)
    \/ DataCheck(t)
    \/ DataLockRequest(t)
    \/ DataRead(t)
    \/ DataStore(t)
    \/ HeaderLock(t)
    \/ HeaderFind(t)

RequestNext ==
    \/ \E t \in Threads : CallData(t)
    \/ \E t \in Threads : \E key \in HeaderKeys : CallHeader(t, key)
    \/ \E t \in Threads : ThreadStep(t)

\* data() and header() called concurrently on one Request
SpecRequest == SInit /\ [][RequestNext]_vars

Next ==
    \/ \E inb \in Inbound : Recv(inb)
    \/ Execute
    \/ WorkerStart
    \/ \E r \in Req : \E key \in HeaderKeys : HandlerHeader(r, key)
    \/ \E r \in Req : HandlerData(r)
    \/ \E r \in Req : HandlerReturn(r)
    \/ \E r \in Req : HandlerPanic(r)
    \/ \E r \in Req : Respond(r)

Spec == Init /\ [][Next]_vars

\* content_encoding::apply on every argument of AInit
SpecApply == AInit /\ [][ApplyNext]_vars

\* Threads of the pool and the accepting thread are OS threads: each keeps
\* running; a handler that was called returns or panics.
FairSpec ==
    /\ Spec
    /\ WF_vars(\E inb \in Inbound : Recv(inb))
    /\ WF_vars(Execute)
    /\ WF_vars(WorkerStart)
    /\ \A r \in Req : WF_vars(HandlerReturn(r) \/ HandlerPanic(r))
    /\ \A r \in Req : WF_vars(Respond(r))

(***************************************************************************)
(* Properties of the dispatcher                                            *)
(***************************************************************************)
RECURSIVE SumDelivered(_)
SumDelivered(n) == IF n = 0 THEN 0 ELSE Len(conn[n].delivered) + SumDelivered(n - 1)

\* C1: with more requests than pool threads, every request whose unit of
\* work completed was answered exactly once, on its own connection, with the
\* response its handler produced; no connection ever holds more than one
\* response or a response of another request; once all M are done, M
\* responses were delivered in total.
C1_ExactlyOneResponsePerConnection ==
    /\ \A c \in Req :
        /\ Len(conn[c].delivered) <= 1
        /\ \A i \in DOMAIN conn[c].delivered : conn[c].delivered[i] = handler(c)
        /\ pc[c] = "Done" <=> Len(conn[c].delivered) = 1
    /\ (\A r \in Req : pc[r] = "Done") => SumDelivered(MaxRequests) = MaxRequests

C1_Witness ==
    /\ MaxRequests > NumWorkers
    /\ \A r \in Req : pc[r] = "Done"
    /\ SumDelivered(MaxRequests) = MaxRequests

\* C2: all data() calls on one Request return the same bytes, and the body
\* reader of its connection is read exactly once, by the first of them.
C2_DataIdempotent ==
    \A r \in Req :
        /\ \A i, j \in DOMAIN calls[r] : calls[r][i].ret = calls[r][j].ret
        /\ conn[r].reads <= 1
        /\ pc[r] = "HandlerRunning" => conn[r].reads = IF calls[r] = <<>> THEN 0 ELSE 1
        /\ calls[r] # <<>> => requests[r].data = Some(calls[r][1].ret)

C2_Witness ==
    \E r \in Req :
        /\ Len(calls[r]) >= 2
        /\ calls[r][1].ret # <<>>
        /\ calls[r][2].ret = calls[r][1].ret

\* C8: a panicking handler costs the pool no thread, and after a panic every
\* request - queued, running or still to be accepted - is accepted,
\* dispatched and finished: it is answered on its own connection unless its
\* own handler panics.
C8_PanicIsolated ==
    /\ [](pool.threads = NumWorkers)
    /\ []((\E p \in Req : pc[p] = "Panicked")
            => <>(\A r \in Req :
                    \/ pc[r] = "Panicked"
                    \/ pc[r] = "Done" /\ conn[r].delivered = <<handler(r)>>))

C8_Witness ==
    /\ Cardinality({p \in Req : pc[p] = "Panicked"}) >= NumWorkers
    /\ \E r \in Req :
        /\ pc[r] = "Done"
        /\ conn[r].delivered = <<handler(r)>>
        /\ \A p \in Req : pc[p] = "Panicked" => p < r

\* C9: a data() call whose network read failed hands the handler a failure
\* signal, not a byte vector.
C9_ReadFailureSurfaces ==
    \A r \in Req : \A i \in DOMAIN calls[r] :
        calls[r][i].err => calls[r][i].kind = "Err"

(***************************************************************************)
(* Properties of content_encoding::apply                                   *)
(***************************************************************************)
\* apply returned its response argument as it was
Unchanged == ~unwrap(returned).panic /\ unwrap(returned).response = arg_response

\* the response argument has a header of that (lower-case) name, whatever its case
HasHeaderNamed(lc_name) ==
    \E i \in DOMAIN arg_response.headers : to_lowercase(arg_response.headers[i][1]) = lc_name

\* the response argument has a Content-Type that counts as text
TextEligible ==
    \E i \in DOMAIN arg_response.headers :
        /\ to_lowercase(arg_response.headers[i][1]) = S_content_type_lc
        /\ LET v == to_lowercase(arg_response.headers[i][2])
           IN  \/ Len(v) >= 5 /\ SubSeq(v, 1, 5) = S_text_slash
               \/ \E p \in {S_javascript, S_json, S_xml, S_font} :
                    \E k \in 1..(Len(v) - Len(p) + 1) : SubSeq(v, k, k + Len(p) - 1) = p

\* the request argument has an Accept-Encoding header, under any case
HasAcceptEncoding ==
    \E i \in DOMAIN arg_request.headers :
        to_lowercase(arg_request.headers[i].field) = S_accept_encoding_lc

\* the value Request::header gives apply for "Accept-Encoding", "" when none
AcceptValue ==
    LET idx == {i \in DOMAIN arg_request.headers : arg_request.headers[i].field = S_Accept_Encoding}
    IN  IF idx = {} THEN S_empty
        ELSE arg_request.headers[CHOOSE i \in idx : \A j \in idx : i <= j].value

\* the server's list of the claims
ServerList == <<S_br, S_gzip, S_x_gzip, S_identity>>

\* all entries of the header value, those of quality 0 included
AllEntries(v) ==
    LET segments == split(v, ",") IN [i \in 1..Len(segments) |-> parse_entry(segments[i])]

\* entry e of the list es matches the supported token t: it names it, or it
\* is '*' and no entry of es names t
Matches(es, e, t) ==
    \/ to_lowercase(e.token) = to_lowercase(t)
    \/ e.token = S_star /\ \A k \in DOMAIN es : to_lowercase(es[k].token) # to_lowercase(t)

\* the highest quality the non-zero entries of v give to token t, 0 when none matches
BestQuality(v, t) ==
    LET es == parse_priority_header(v)
        qs == {es[k].quality : k \in {k \in DOMAIN es : Matches(es, es[k], t)}}
    IN  IF qs = {} THEN 0 ELSE CHOOSE q \in qs : \A q2 \in qs : q2 <= q

\* token i of the server list is the one the claim says is selected for v
IsWinner(v, i) ==
    /\ BestQuality(v, ServerList[i]) > 0
    /\ \A j \in DOMAIN ServerList :
        /\ BestQuality(v, ServerList[j]) <= BestQuality(v, ServerList[i])
        /\ j < i => BestQuality(v, ServerList[j]) < BestQuality(v, ServerList[i])

\* the token apply selected, None when it selected none
SelectedToken ==
    IF is_some(unwrap(returned).preferred_index)
    THEN Some(encoding_preference[unwrap(unwrap(returned).preferred_index)])
    ELSE None

\* C3: a response that has a Content-Encoding header, under any case of the
\* name, comes back from apply with the same headers and body, whatever the
\* request is.
C3_ContentEncodingPresentIsNoOp ==
    (is_some(returned) /\ HasHeaderNamed(S_content_encoding_lc)) => Unchanged

C3_Witness ==
    /\ is_some(returned)
    /\ TextEligible
    /\ HasHeaderNamed(S_content_encoding_lc)
    /\ \A i \in DOMAIN arg_response.headers : arg_response.headers[i][1] # S_Content_Encoding
    /\ AcceptValue = S_gzip
    /\ features = {"gzip", "brotli"}
    /\ Unchanged

\* C4: a response without a Content-Type header, or whose Content-Type is
\* not text-like, comes back from apply with the same headers and body,
\* whatever the request is.
C4_NonTextIsNoOp ==
    (is_some(returned) /\ ~TextEligible) => Unchanged

C4_Witness ==
    /\ is_some(returned)
    /\ HasHeaderNamed(S_content_type_lc)
    /\ ~TextEligible
    /\ ~HasHeaderNamed(S_content_encoding_lc)
    /\ AcceptValue = S_gzip
    /\ features = {"gzip", "brotli"}
    /\ ~arg_response.data.fails
    /\ Unchanged

\* C5: for a text response without Content-Encoding, the token apply selects
\* from the Accept-Encoding value it reads is the supported token of highest
\* non-zero quality among the matching entries, the earliest of the server
\* list among equals, and none when no entry matches; the weighted example
\* and the tie example both select br.
C5_SelectsBestSupportedToken ==
    (is_some(returned) /\ TextEligible /\ ~HasHeaderNamed(S_content_encoding_lc)) =>
        /\ \A i \in DOMAIN ServerList :
            IsWinner(AcceptValue, i) <=> SelectedToken = Some(ServerList[i])
        /\ SelectedToken = None <=> \A i \in DOMAIN ServerList : ~IsWinner(AcceptValue, i)
        /\ AcceptValue \in {Example_weighted, Example_tie} => SelectedToken = Some(S_br)

C5_Witness ==
    /\ is_some(returned)
    /\ AcceptValue = Example_weighted
    /\ SelectedToken = Some(S_br)
    /\ features = {"gzip", "brotli"}
    /\ unwrap(returned).response.headers = Append(arg_response.headers, <<S_Content_Encoding, S_br>>)

\* C6 as stated: when every entry of the Accept-Encoding header has quality
\* 0 or a token that is not in the server list, apply returns the response
\* unchanged.
C6_OnlyZeroOrUnlistedIsNoOp ==
    (/\ is_some(returned)
     /\ HasAcceptEncoding
     /\ \A e \in {AllEntries(AcceptValue)[k] : k \in DOMAIN AllEntries(AcceptValue)} :
            \/ e.quality = 0
            \/ \A i \in DOMAIN ServerList : to_lowercase(e.token) # to_lowercase(ServerList[i]))
        => Unchanged

\* C6 amended: when every entry of the Accept-Encoding header has quality 0
\* or a token that matches no supported token - it is neither one of the
\* server list (ignoring case) nor the wildcard '*' - apply returns the
\* response unchanged and adds no Content-Encoding header.
C6_OnlyZeroOrUnmatchedIsNoOp ==
    (/\ is_some(returned)
     /\ HasAcceptEncoding
     /\ \A e \in {AllEntries(AcceptValue)[k] : k \in DOMAIN AllEntries(AcceptValue)} :
            \/ e.quality = 0
            \/ /\ e.token # S_star
               /\ \A i \in DOMAIN ServerList : to_lowercase(e.token) # to_lowercase(ServerList[i]))
        => Unchanged

C6_Witness ==
    /\ is_some(returned)
    /\ arg_response = TextResponse
    /\ features = {"gzip", "brotli"}
    /\ Len(AllEntries(AcceptValue)) = 2
    /\ AllEntries(AcceptValue)[1] = [token |-> S_gzip, quality |-> 0]
    /\ AllEntries(AcceptValue)[2] = [token |-> S_deflate, quality |-> 1000]
    /\ Unchanged

\* C7: when the request has no Accept-Encoding header, or an empty one,
\* apply returns normally with the response unchanged: no encoding, no
\* Content-Encoding header added.
C7_MissingOrEmptyHeaderIsNoOp ==
    (is_some(returned) /\ (~HasAcceptEncoding \/ AcceptValue = S_empty)) => Unchanged

C7_Witness ==
    /\ is_some(returned)
    /\ ~HasAcceptEncoding
    /\ TextEligible
    /\ ~HasHeaderNamed(S_content_encoding_lc)
    /\ features = {"gzip", "brotli"}
    /\ Unchanged

\* C10: when reading the body of the response fails, apply neither panics
\* nor reports an error: it returns the original response, no
\* Content-Encoding header added.
C10_BodyReadFailureIsAbsorbed ==
    (is_some(returned) /\ arg_response.data.fails) => Unchanged

\* the encoder that compresses for a token: brotli for br, gzip for gzip and x-gzip
EncoderOf(t) == IF t = S_br THEN "brotli" ELSE "gzip"

\* apply returned after encoding: it selected br, gzip or x-gzip and the
\* encoder of that token is compiled in
Transformed ==
    /\ is_some(returned)
    /\ ~unwrap(returned).panic
    /\ is_some(SelectedToken)
    /\ unwrap(SelectedToken) \in {S_br, S_gzip, S_x_gzip}
    /\ EncoderOf(unwrap(SelectedToken)) \in features

\* the body apply returned is the body it was given, sent through the
\* encoder of the selected token
BodyCompressed ==
    /\ unwrap(returned).response.data.layers
         = Append(arg_response.data.layers, EncoderOf(unwrap(SelectedToken)))
    /\ unwrap(returned).response.data.bytes = arg_response.data.bytes

\* C11 as stated: a response apply encodes comes back with its body
\* compressed and exactly one Content-Encoding header more, whose value is
\* the winning token itself.
C11_HeaderNamesWinningToken ==
    Transformed =>
        /\ BodyCompressed
        /\ unwrap(returned).response.headers
             = Append(arg_response.headers, <<S_Content_Encoding, unwrap(SelectedToken)>>)

\* C11 amended: a response apply encodes comes back with its body compressed
\* and exactly one Content-Encoding header more, whose value is br when br
\* won and gzip when gzip or x-gzip won.
C11_HeaderNamesEncoder ==
    Transformed =>
        /\ BodyCompressed
        /\ unwrap(returned).response.headers
             = Append(arg_response.headers,
                      <<S_Content_Encoding,
                        IF unwrap(SelectedToken) = S_br THEN S_br ELSE S_gzip>>)
        /\ Cardinality({i \in DOMAIN unwrap(returned).response.headers :
                to_lowercase(unwrap(returned).response.headers[i][1]) = S_content_encoding_lc}) = 1

C11_Witness ==
    /\ Transformed
    /\ unwrap(SelectedToken) = S_x_gzip
    /\ arg_response.data.bytes # <<>>
    /\ unwrap(returned).response.headers
         = Append(arg_response.headers, <<S_Content_Encoding, S_gzip>>)
    /\ unwrap(returned).response.data.layers = <<"gzip">>

\* the number of Content-Encoding headers, under any case, among hs
CountContentEncoding(hs) ==
    Cardinality({i \in DOMAIN hs : to_lowercase(hs[i][1]) = S_content_encoding_lc})

\* C20: apply on the response apply returned, with the same request, returns
\* normally with the same headers and body: nothing is encoded twice, and
\* the two calls together add at most one Content-Encoding header.
C20_ApplyIdempotent ==
    is_some(again) =>
        /\ ~unwrap(again).panic
        /\ unwrap(again).response = unwrap(returned).response
        /\ Len(unwrap(again).response.data.layers) <= Len(arg_response.data.layers) + 1
        /\ CountContentEncoding(unwrap(again).response.headers)
             <= CountContentEncoding(arg_response.headers) + 1

C20_Witness ==
    /\ is_some(again)
    /\ unwrap(returned).response.data.layers = <<"gzip">>
    /\ unwrap(returned).response # arg_response
    /\ unwrap(again).response = unwrap(returned).response

\* C13: the connection handle of a Request is taken out of its slot at most
\* once and only by the responding step, which finds the slot occupied; a
\* response only ever goes out on a taken handle, so no connection gets a
\* second one; a unit of work that ended has no handle left, and whatever a
\* unit of work does the accept loop is never stopped by it.
C13_HandleTakenAtMostOnce ==
    \A r \in Req :
        /\ conn[r].taken <= 1
        /\ Len(conn[r].delivered) = conn[r].taken
        /\ pc[r] = "Responding" => requests[r].request = Some(r) /\ conn[r].taken = 0
        /\ pc[r] \in {"Done", "Panicked"} => requests[r].request = None
        /\ conn[r].taken = 1 <=> pc[r] = "Done"

C13_Witness ==
    /\ \E r \in Req : pc[r] = "Done" /\ conn[r].taken = 1 /\ requests[r].request = None
    /\ \E r \in Req : pc[r] = "Panicked" /\ conn[r].taken = 0 /\ conn[r].delivered = <<>>

\* C14: the accept loop never waits for a pool thread: whenever it holds a
\* Request, pool.execute can run, whatever the pool is doing; whenever it is
\* in recv and a client has a request to send, recv can return; and a
\* handler only ever runs, and a response is only ever sent, on a pool
\* thread, never while the accept loop still holds that Request.
C14_AcceptLoopNeverWaits ==
    /\ loop # 0 => ENABLED Execute
    /\ (loop = 0 /\ accepted < MaxRequests) => ENABLED (\E inb \in Inbound : Recv(inb))
    /\ Cardinality(pool.active) <= pool.threads
    /\ \A r \in Req :
        pc[r] \in {"HandlerRunning", "Responding"} <=> r \in pool.active
    /\ \A r \in pool.active : loop # r

C14_Witness ==
    /\ Cardinality(pool.active) = NumWorkers
    /\ \A r \in pool.active : pc[r] = "HandlerRunning"
    /\ pool.jobs # <<>>
    /\ loop = 0

\* the handler of r was started
Started(r) == pc[r] \in {"HandlerRunning", "Responding", "Done", "Panicked"}

Successor(s, t) ==
    <<s, t>> \in { <<"NotAccepted", "Accepted">>,
                   <<"Accepted", "Dispatched">>,
                   <<"Dispatched", "HandlerRunning">>,
                   <<"HandlerRunning", "Responding">>,
                   <<"Responding", "Done">>,
                   <<"HandlerRunning", "Panicked">> }

\* C16: the state of a request only ever moves to the next state of
\* Accepted, Dispatched, HandlerRunning, Responding, Done (or from
\* HandlerRunning to Panicked when the handler does not return); a request
\* that is Done was answered; and with threads scheduled fairly no request
\* stays dispatched, running or responding for ever.
C16_StateMachineRunsToCompletion ==
    /\ [][\A r \in Req : pc'[r] # pc[r] => Successor(pc[r], pc'[r])]_vars
    /\ [](\A r \in Req : pc[r] = "Done" => conn[r].delivered = <<handler(r)>>)
    /\ <>[](\A r \in Req : pc[r] \notin {"Dispatched", "HandlerRunning", "Responding"})

C16_Witness ==
    /\ \E r \in Req : pc[r] = "Done" /\ conn[r].delivered = <<handler(r)>>
    /\ \E r \in Req : pc[r] = "Responding"
    /\ \E r \in Req : pc[r] = "Dispatched"

\* C17: as long as a Request has no cached body, nothing was read from the
\* body reader of its connection; and the reader is only ever read in a step
\* in which the running handler gets the result of a data() call.
C17_BodyReadIsLazy ==
    /\ [](\A r \in Req :
            (is_some(requests[r].request) /\ requests[r].data = None)
                => (conn[r].reads = 0 /\ conn[r].pos = 0))
    /\ [][\A r \in Req :
            (conn'[r].reads > conn[r].reads \/ conn'[r].pos > conn[r].pos)
                => /\ pc[r] = "HandlerRunning"
                   /\ Len(calls'[r]) = Len(calls[r]) + 1]_vars

C17_Witness ==
    \E r \in Req :
        /\ pc[r] = "Responding"
        /\ requests[r].data = None
        /\ conn[r].body # <<>>
        /\ conn[r].reads = 0

\* C18: while the handler of a Request runs, and until the response is
\* sent, the slot holds the connection handle, which was never taken: the
\* unwrap in header() and in data() finds it.
C18_SlotOccupiedDuringHandler ==
    \A r \in Req :
        pc[r] \in {"HandlerRunning", "Responding"}
            => /\ requests[r].request = Some(r)
               /\ conn[r].taken = 0
               /\ conn[r].headers # <<>>

C18_Witness ==
    \E r \in Req :
        /\ pc[r] = "HandlerRunning"
        /\ Len(calls[r]) = MaxDataCalls
        /\ requests[r].request = Some(r)
        /\ header(conn[r], S_Host) # None

(***************************************************************************)
(* Properties of a Request shared by threads                               *)
(***************************************************************************)
\* thread t is inside a call
InCall(t) == thr[t].pc # "idle"

\* C19: threads calling data() and header() on one Request never deadlock:
\* the cache mutex is only ever requested by a thread that holds no mutex
\* and the request mutex is never held by a thread that waits, so while a
\* call is in progress some call can take a step; the body reader is read
\* at most once; and all data() calls return the same bytes, the cached ones.
C19_ConcurrentCallsAreSafe ==
    /\ \A t \in Threads :
        /\ locks.request = t <=> thr[t].pc \in {"data_read", "header_find"}
        /\ locks.data = t <=> thr[t].pc \in {"data_check", "data_lock_request", "data_read", "data_store"}
        /\ thr[t].pc = "data_lock_data" => (locks.data # t /\ locks.request # t)
    /\ (\E t \in Threads : InCall(t)) => ENABLED (\E t \in Threads : ThreadStep(t))
    /\ conn[1].reads <= 1
    /\ \A i, j \in DOMAIN calls[1] : calls[1][i].ret = calls[1][j].ret
    /\ calls[1] # <<>> => requests[1].data = Some(calls[1][1].ret)

C19_Witness ==
    /\ Len(calls[1]) >= 2
    /\ calls[1][1].ret # <<>>
    /\ \E t, u \in Threads :
        /\ t # u
        /\ thr[t].fn = "data" /\ thr[t].pc = "idle" /\ thr[t].ret = Some(calls[1][1].ret)
        /\ thr[u].fn = "data" /\ thr[u].pc = "idle" /\ thr[u].ret = Some(calls[1][1].ret)

\* C12: a header() call returns the value of a header whose name equals the
\* key ignoring ASCII case whenever there is one, and none only when there
\* is no such header.
C12_HeaderLookupIgnoresCase ==
    \A t \in Threads :
        (thr[t].fn = "header" /\ thr[t].pc = "idle")
            => LET hs == conn[1].headers
                   idx == {i \in DOMAIN hs : eq_ignore_ascii_case(hs[i].field, thr[t].key)}
               IN  IF idx = {}
                   THEN unwrap(thr[t].ret) = None
                   ELSE unwrap(thr[t].ret) \in {Some(hs[i].value) : i \in idx}

====
